---------------------------- MODULE Spec2Model ----------------------------
(***************************************************************************)
(* Single-instance coordination of kitty/utils.py: SingleInstance.__call__ *)
(* (abstract-namespace socket), single_instance_unix (lock file + socket   *)
(* path), unix_socket_paths, remove_socket_file, and parse_address_spec.   *)
(*                                                                         *)
(* Every process of Procs runs the acquisition entry point once.  One step *)
(* of the model is one system call of the code (bind, connect, listen,     *)
(* os.access, os.open, lockf, unlink) together with the local assignments  *)
(* around it.  The kernel objects shared by the processes are the abstract *)
(* address, and per candidate directory the lock file, its advisory lock   *)
(* and the socket path.                                                    *)
(***************************************************************************)
EXTENDS Integers, Sequences, FiniteSets, TLC

\* Number of racing processes.
NumProcs == 2
\* candidates = [tempfile.gettempdir(), home] (or the two macOS caches).
NumDirs == 2
\* How often remove_socket_file may be invoked explicitly per process.
MaxRelease == 2

Procs == 1..NumProcs
Dirs == 1..NumDirs
NoProc == 0
NoDir == 0

\* Socket objects.  The socket a process creates in its first call of the
\* entry point has the number of the process; the socket of a second call of
\* the entry point in the same process has the number Second(p).
Socks == 1..(2 * NumProcs)
Second(p) == p + NumProcs
Owner(s) == IF s \in Procs THEN s ELSE s - NumProcs

VARIABLES
    abstractOK,   \* the platform supports abstract-namespace addresses
    absBound,     \* the socket bound to the abstract address '\0' + name
    lockFile,     \* lockFile[d]: <dir>/<name>.lock exists
    lock,         \* lock[d]: process holding the exclusive lockf lock
    path,         \* path[d]: the socket <dir>/<name>.sock refers to
    pc,           \* pc[p]: position of process p in the acquisition
    cand,         \* cand[p]: candidate directory the for loop is at
    sock,         \* sock[s]: state of socket s (of a first or a second call)
    peer,         \* peer[s]: the socket that socket s is connected to
    result,       \* result[p]: what the entry point returned or raised
    errAt,        \* errAt[p]: the system call whose OSError propagated
    single,       \* single[p]: single_instance.socket refers to s
    atexit,       \* atexit[p]: registered (socket, path) release handlers
    relCalls,     \* relCalls[p]: invocations of remove_socket_file so far
    relRaised,    \* relRaised[p]: an invocation of remove_socket_file raised
    primAtStart,  \* primAtStart[p]: primaries established when p started
    staleOf,      \* staleOf[p]: dead owner of the path p found when locking
    pc2,          \* pc2[p]: position of p in a second call of the entry point
    cand2,        \* cand2[p]: candidate directory of the second call
    result2,      \* result2[p]: what the second call returned or raised
    single2,      \* single2[p]: single_instance.socket refers to Second(p)
    spec,         \* parse_address_spec: the argument, a sequence of chars
    fields,       \* parse_address_spec: the fields the argument encodes
    parsed        \* parse_address_spec: the value returned or error raised

procVars == <<abstractOK, absBound, lockFile, lock, path, pc, cand, sock, peer,
              result, errAt, single, atexit, relCalls, relRaised, primAtStart,
              staleOf, pc2, cand2, result2, single2>>
reVars == <<pc2, cand2, result2, single2>>
parseVars == <<spec, fields, parsed>>
vars == <<procVars, parseVars>>

-----------------------------------------------------------------------------
(* Kernel objects and helpers                                              *)

\* connect() succeeds only on an address whose socket is listening;
\* a missing address or a bound socket that does not listen yet refuses.
Connectable(t) == t # NoProc /\ sock[t] = "listening"

\* q has completed acquisition as primary: it returned, and its socket is
\* listening and still bound at the abstract address or at a socket path.
Established(q) ==
    /\ pc[q] = "done"
    /\ sock[q] = "listening"
    /\ (absBound = q \/ \E d \in Dirs : path[d] = q)

\* for loc in candidates: if os.access(loc, ...): yield ...
\* acc[d] is the answer of os.access for candidate d; the result is the
\* first candidate at or after i that is yielded, NumDirs + 1 if none is.
RECURSIVE FirstAccessible(_, _)
FirstAccessible(acc, i) ==
    IF i > NumDirs THEN NumDirs + 1
    ELSE IF acc[i] THEN i
    ELSE FirstAccessible(acc, i + 1)

\* os.unlink(socket_path)
Unlinked(pa, d) == [pa EXCEPT ![d] = NoProc]

\* s.bind(socket_path) creating the path
BoundAt(pa, d, s) == [pa EXCEPT ![d] = s]

\* An OSError leaves the entry point: nothing is returned, the local socket
\* object is dropped (and so closed), single_instance.socket is untouched.
Raise(p, at) ==
    /\ pc' = [pc EXCEPT ![p] = "done"]
    /\ result' = [result EXCEPT ![p] = "OSError"]
    /\ errAt' = [errAt EXCEPT ![p] = at]

-----------------------------------------------------------------------------
(* SingleInstance.__call__                                                 *)

\* AbsBind falling back to the filesystem coordinator on EADDRINUSE as well.
AbsBindFallsBackOnInUse(p) ==
    /\ pc[p] = "start"
    /\ primAtStart' = [primAtStart EXCEPT ![p] = {q \in Procs : Established(q)}]
    /\ IF ~abstractOK \/ absBound # NoProc
       THEN /\ pc' = [pc EXCEPT ![p] = "enum"]
            /\ UNCHANGED <<absBound, sock>>
       ELSE /\ absBound' = p
            /\ sock' = [sock EXCEPT ![p] = "bound"]
            /\ pc' = [pc EXCEPT ![p] = "abs_listen"]
    /\ UNCHANGED <<abstractOK, lockFile, lock, path, cand, peer, result, errAt,
                   single, atexit, relCalls, relRaised, staleOf, reVars, parseVars>>

\* s = socket.socket(AF_UNIX); s.bind('\0' + name)
AbsBind(p) ==
    /\ pc[p] = "start"
    /\ primAtStart' = [primAtStart EXCEPT ![p] = {q \in Procs : Established(q)}]
    /\ IF ~abstractOK
       THEN \* ENOENT: return single_instance_unix(name)
            /\ pc' = [pc EXCEPT ![p] = "enum"]
            /\ UNCHANGED <<absBound, sock>>
       ELSE IF absBound = NoProc
       THEN /\ absBound' = p
            /\ sock' = [sock EXCEPT ![p] = "bound"]
            /\ pc' = [pc EXCEPT ![p] = "abs_listen"]
       ELSE \* EADDRINUSE
            /\ pc' = [pc EXCEPT ![p] = "abs_connect"]
            /\ sock' = [sock EXCEPT ![p] = "created"]
            /\ UNCHANGED absBound
    /\ UNCHANGED <<abstractOK, lockFile, lock, path, cand, peer, result, errAt,
                   single, atexit, relCalls, relRaised, staleOf, reVars, parseVars>>

\* s.connect(addr); single_instance.socket = s; return False
AbsConnect(p) ==
    /\ pc[p] = "abs_connect"
    /\ IF Connectable(absBound)
       THEN /\ peer' = [peer EXCEPT ![p] = absBound]
            /\ sock' = [sock EXCEPT ![p] = "connected"]
            /\ single' = [single EXCEPT ![p] = TRUE]
            /\ result' = [result EXCEPT ![p] = "False"]
            /\ pc' = [pc EXCEPT ![p] = "done"]
            /\ UNCHANGED errAt
       ELSE /\ Raise(p, "connect")
            /\ sock' = [sock EXCEPT ![p] = "closed"]
            /\ UNCHANGED <<peer, single>>
    /\ UNCHANGED <<abstractOK, absBound, lockFile, lock, path, cand, atexit,
                   relCalls, relRaised, primAtStart, staleOf, reVars, parseVars>>

\* s.listen(); single_instance.socket = s; s.set_inheritable(False);
\* atexit.register(remove_socket_file, s); return True
AbsListen(p) ==
    /\ pc[p] = "abs_listen"
    /\ sock' = [sock EXCEPT ![p] = "listening"]
    /\ single' = [single EXCEPT ![p] = TRUE]
    /\ atexit' = [atexit EXCEPT ![p] = Append(@, <<p, NoDir>>)]
    /\ result' = [result EXCEPT ![p] = "True"]
    /\ pc' = [pc EXCEPT ![p] = "done"]
    /\ UNCHANGED <<abstractOK, absBound, lockFile, lock, path, cand, peer, errAt,
                   relCalls, relRaised, primAtStart, staleOf, reVars, parseVars>>

-----------------------------------------------------------------------------
(* unix_socket_paths and single_instance_unix                              *)

\* for path in unix_socket_paths(name): the generator runs up to its first
\* yield.  The loop body below always returns or raises, so the generator is
\* never resumed; when it yields nothing the function falls off its end and
\* returns None.
Enumerate(p) ==
    /\ pc[p] = "enum"
    /\ \E acc \in [Dirs -> BOOLEAN] :
         LET d == FirstAccessible(acc, 1) IN
         /\ cand' = [cand EXCEPT ![p] = d]
         /\ IF d <= NumDirs
            THEN /\ pc' = [pc EXCEPT ![p] = "open"]
                 /\ UNCHANGED result
            ELSE /\ pc' = [pc EXCEPT ![p] = "done"]
                 /\ result' = [result EXCEPT ![p] = "None"]
    /\ UNCHANGED <<abstractOK, absBound, lockFile, lock, path, sock, peer, errAt,
                   single, atexit, relCalls, relRaised, primAtStart, staleOf,
                   reVars, parseVars>>

\* fd = os.open(path, O_CREAT | O_WRONLY | O_TRUNC | O_CLOEXEC); a failure
\* (the directory or lock file is not writable any more) is not caught.
OpenLock(p) ==
    /\ pc[p] = "open"
    /\ \E ok \in BOOLEAN :
         IF ok
         THEN /\ lockFile' = [lockFile EXCEPT ![cand[p]] = TRUE]
              /\ pc' = [pc EXCEPT ![p] = "lockf"]
              /\ UNCHANGED <<result, errAt>>
         ELSE /\ Raise(p, "open")
              /\ UNCHANGED lockFile
    /\ UNCHANGED <<abstractOK, absBound, lock, path, cand, sock, peer, single,
                   atexit, relCalls, relRaised, primAtStart, staleOf, reVars, parseVars>>

\* Lockf granting the lock even when another process holds it.
LockfNotExclusive(p) ==
    /\ pc[p] = "lockf"
    /\ lock' = [lock EXCEPT ![cand[p]] = p]
    /\ sock' = [sock EXCEPT ![p] = "created"]
    /\ staleOf' = [staleOf EXCEPT ![p] = path[cand[p]]]
    /\ pc' = [pc EXCEPT ![p] = "fs_bind"]
    /\ UNCHANGED <<abstractOK, absBound, lockFile, path, cand, peer, result,
                   errAt, single, atexit, relCalls, relRaised, primAtStart,
                   reVars, parseVars>>

\* fcntl.lockf(fd, LOCK_EX | LOCK_NB); the lock belongs to the process.
Lockf(p) ==
    /\ pc[p] = "lockf"
    /\ LET d == cand[p] IN
       IF lock[d] \in {NoProc, p}
       THEN /\ lock' = [lock EXCEPT ![d] = p]
            /\ sock' = [sock EXCEPT ![p] = "created"]
            /\ staleOf' = [staleOf EXCEPT ![p] = path[d]]
            /\ pc' = [pc EXCEPT ![p] = "fs_bind"]
       ELSE \* EAGAIN / EACCES: client
            /\ sock' = [sock EXCEPT ![p] = "created"]
            /\ pc' = [pc EXCEPT ![p] = "fs_connect"]
            /\ UNCHANGED <<lock, staleOf>>
    /\ UNCHANGED <<abstractOK, absBound, lockFile, path, cand, peer, result,
                   errAt, single, atexit, relCalls, relRaised, primAtStart,
                   reVars, parseVars>>

\* FsConnect registering the release for the path it connected to.
FsConnectRegistersCleanup(p) ==
    /\ pc[p] = "fs_connect"
    /\ LET d == cand[p] IN
       IF Connectable(path[d])
       THEN /\ peer' = [peer EXCEPT ![p] = path[d]]
            /\ sock' = [sock EXCEPT ![p] = "connected"]
            /\ single' = [single EXCEPT ![p] = TRUE]
            /\ atexit' = [atexit EXCEPT ![p] = Append(@, <<p, d>>)]
            /\ result' = [result EXCEPT ![p] = "False"]
            /\ pc' = [pc EXCEPT ![p] = "done"]
            /\ UNCHANGED errAt
       ELSE /\ Raise(p, "connect")
            /\ sock' = [sock EXCEPT ![p] = "closed"]
            /\ UNCHANGED <<peer, single, atexit>>
    /\ UNCHANGED <<abstractOK, absBound, lockFile, lock, path, cand,
                   relCalls, relRaised, primAtStart, staleOf, reVars, parseVars>>

\* s.connect(socket_path); single_instance.socket = s; return False
FsConnect(p) ==
    /\ pc[p] = "fs_connect"
    /\ LET d == cand[p] IN
       IF Connectable(path[d])
       THEN /\ peer' = [peer EXCEPT ![p] = path[d]]
            /\ sock' = [sock EXCEPT ![p] = "connected"]
            /\ single' = [single EXCEPT ![p] = TRUE]
            /\ result' = [result EXCEPT ![p] = "False"]
            /\ pc' = [pc EXCEPT ![p] = "done"]
            /\ UNCHANGED errAt
       ELSE /\ Raise(p, "connect")
            /\ sock' = [sock EXCEPT ![p] = "closed"]
            /\ UNCHANGED <<peer, single>>
    /\ UNCHANGED <<abstractOK, absBound, lockFile, lock, path, cand, atexit,
                   relCalls, relRaised, primAtStart, staleOf, reVars, parseVars>>

\* FsBind without the stale-socket branch: every bind failure propagates.
FsBindNoRecovery(p) ==
    /\ pc[p] = "fs_bind"
    /\ LET d == cand[p] IN
       IF path[d] = NoProc
       THEN /\ path' = BoundAt(path, d, p)
            /\ sock' = [sock EXCEPT ![p] = "bound"]
            /\ pc' = [pc EXCEPT ![p] = "fs_listen"]
            /\ UNCHANGED <<result, errAt>>
       ELSE /\ Raise(p, "bind")
            /\ sock' = [sock EXCEPT ![p] = "closed"]
            /\ UNCHANGED path
    /\ UNCHANGED <<abstractOK, absBound, lockFile, lock, cand, peer, single,
                   atexit, relCalls, relRaised, primAtStart, staleOf, reVars, parseVars>>

\* s.bind(socket_path)
FsBind(p) ==
    /\ pc[p] = "fs_bind"
    /\ LET d == cand[p] IN
       IF path[d] = NoProc
       THEN /\ path' = BoundAt(path, d, p)
            /\ sock' = [sock EXCEPT ![p] = "bound"]
            /\ pc' = [pc EXCEPT ![p] = "fs_listen"]
       ELSE \* EADDRINUSE / EEXIST
            /\ pc' = [pc EXCEPT ![p] = "fs_unlink"]
            /\ UNCHANGED <<path, sock>>
    /\ UNCHANGED <<abstractOK, absBound, lockFile, lock, cand, peer, result,
                   errAt, single, atexit, relCalls, relRaised, primAtStart,
                   staleOf, reVars, parseVars>>

\* os.unlink(socket_path) in the except branch; FileNotFoundError propagates.
FsUnlink(p) ==
    /\ pc[p] = "fs_unlink"
    /\ LET d == cand[p] IN
       IF path[d] # NoProc
       THEN /\ path' = Unlinked(path, d)
            /\ pc' = [pc EXCEPT ![p] = "fs_rebind"]
            /\ UNCHANGED <<result, errAt, sock>>
       ELSE /\ Raise(p, "unlink")
            /\ sock' = [sock EXCEPT ![p] = "closed"]
            /\ UNCHANGED path
    /\ UNCHANGED <<abstractOK, absBound, lockFile, lock, cand, peer, single,
                   atexit, relCalls, relRaised, primAtStart, staleOf, reVars, parseVars>>

\* s.bind(socket_path) again, inside the except branch: a failure propagates.
FsRebind(p) ==
    /\ pc[p] = "fs_rebind"
    /\ LET d == cand[p] IN
       IF path[d] = NoProc
       THEN /\ path' = BoundAt(path, d, p)
            /\ sock' = [sock EXCEPT ![p] = "bound"]
            /\ pc' = [pc EXCEPT ![p] = "fs_listen"]
            /\ UNCHANGED <<result, errAt>>
       ELSE /\ Raise(p, "bind")
            /\ sock' = [sock EXCEPT ![p] = "closed"]
            /\ UNCHANGED path
    /\ UNCHANGED <<abstractOK, absBound, lockFile, lock, cand, peer, single,
                   atexit, relCalls, relRaised, primAtStart, staleOf, reVars, parseVars>>

\* FsListen registering the release without the socket path.
FsListenNoPath(p) ==
    /\ pc[p] = "fs_listen"
    /\ single' = [single EXCEPT ![p] = TRUE]
    /\ atexit' = [atexit EXCEPT ![p] = Append(@, <<p, NoDir>>)]
    /\ sock' = [sock EXCEPT ![p] = "listening"]
    /\ result' = [result EXCEPT ![p] = "True"]
    /\ pc' = [pc EXCEPT ![p] = "done"]
    /\ UNCHANGED <<abstractOK, absBound, lockFile, lock, path, cand, peer, errAt,
                   relCalls, relRaised, primAtStart, staleOf, reVars, parseVars>>

\* single_instance.socket = s; atexit.register(remove_socket_file, s,
\* socket_path); s.listen(); s.set_inheritable(False); return True
FsListen(p) ==
    /\ pc[p] = "fs_listen"
    /\ single' = [single EXCEPT ![p] = TRUE]
    /\ atexit' = [atexit EXCEPT ![p] = Append(@, <<p, cand[p]>>)]
    /\ sock' = [sock EXCEPT ![p] = "listening"]
    /\ result' = [result EXCEPT ![p] = "True"]
    /\ pc' = [pc EXCEPT ![p] = "done"]
    /\ UNCHANGED <<abstractOK, absBound, lockFile, lock, path, cand, peer, errAt,
                   relCalls, relRaised, primAtStart, staleOf, reVars, parseVars>>

-----------------------------------------------------------------------------
(* remove_socket_file, process exit and process death                      *)

\* The exception classes contextlib.suppress(OSError) swallows.
OSErrors == {"OSError", "FileNotFoundError"}

\* s.close(): closing a closed socket object is a no-op and raises nothing.
CloseError(st, s) == ""

\* os.unlink(path): FileNotFoundError when the path is not there.
UnlinkError(st, d) == IF st.path[d] = NoProc THEN "FileNotFoundError" ELSE ""

\* remove_socket_file with the unlink outside suppress(OSError).
RemoveSocketFileUnsuppressed(st, s, d) ==
    LET closed == [st EXCEPT !.sock[s] = "closed",
                             !.absBound = IF @ = s THEN NoProc ELSE @]
    IN  IF d # NoDir
        THEN [closed EXCEPT !.path = Unlinked(@, d),
                            !.raised = @ \/ UnlinkError(closed, d) # ""]
        ELSE closed

\* def remove_socket_file(s, path=None):
\*     with suppress(OSError): s.close()
\*     if path: with suppress(OSError): os.unlink(path)
\* st holds the kernel objects it touches and whether a call has raised.
RemoveSocketFile(st, s, d) ==
    LET closed == [st EXCEPT !.sock[s] = "closed",
                             !.absBound = IF @ = s THEN NoProc ELSE @,
                             !.raised = @ \/ CloseError(st, s) \notin OSErrors \cup {""}]
    IN  IF d # NoDir
        THEN [closed EXCEPT !.path = Unlinked(@, d),
                            !.raised = @ \/ UnlinkError(closed, d) \notin OSErrors \cup {""}]
        ELSE closed

KernelState(p) ==
    [sock |-> sock, absBound |-> absBound, path |-> path, raised |-> relRaised[p]]

\* atexit runs the registered handlers, last registered first.
RECURSIVE RunHandlers(_, _)
RunHandlers(st, hs) ==
    IF hs = <<>> THEN st
    ELSE LET h == hs[Len(hs)] IN
         RunHandlers(RemoveSocketFile(st, h[1], h[2]), SubSeq(hs, 1, Len(hs) - 1))

\* The process is gone: the kernel closes its sockets and descriptors, which
\* frees the abstract address and the lockf lock; socket paths stay behind.
Terminated(p, st) ==
    /\ pc' = [pc EXCEPT ![p] = "dead"]
    /\ sock' = [s \in Socks |->
                   IF Owner(s) = p /\ st.sock[s] # "none" THEN "closed"
                   ELSE st.sock[s]]
    /\ absBound' = IF st.absBound # NoProc /\ Owner(st.absBound) = p
                   THEN NoProc ELSE st.absBound
    /\ lock' = [d \in Dirs |-> IF lock[d] = p THEN NoProc ELSE lock[d]]
    /\ path' = st.path

\* An explicit invocation of a registered release while the process lives.
Release(p) ==
    /\ pc[p] = "done"
    /\ relCalls[p] < MaxRelease
    /\ \E i \in DOMAIN atexit[p] :
         LET st == RemoveSocketFile(KernelState(p), atexit[p][i][1], atexit[p][i][2]) IN
         /\ sock' = st.sock
         /\ absBound' = st.absBound
         /\ path' = st.path
         /\ relRaised' = [relRaised EXCEPT ![p] = st.raised]
    /\ relCalls' = [relCalls EXCEPT ![p] = @ + 1]
    /\ UNCHANGED <<abstractOK, lockFile, lock, pc, cand, peer, result, errAt,
                   single, atexit, primAtStart, staleOf, reVars, parseVars>>

\* Normal exit after the entry point has returned or raised: the atexit
\* handlers run, then the process terminates.
Exit(p) ==
    /\ pc[p] = "done"
    /\ LET st == RunHandlers(KernelState(p), atexit[p]) IN
       /\ Terminated(p, st)
       /\ relRaised' = [relRaised EXCEPT ![p] = st.raised]
    /\ UNCHANGED <<abstractOK, lockFile, cand, peer, result, errAt, single,
                   atexit, relCalls, primAtStart, staleOf, reVars, parseVars>>

\* The process is killed at any point after it started; no handler runs.
Kill(p) ==
    /\ pc[p] \notin {"start", "dead"}
    /\ Terminated(p, KernelState(p))
    /\ UNCHANGED <<abstractOK, lockFile, cand, peer, result, errAt, single,
                   atexit, relCalls, relRaised, primAtStart, staleOf, reVars, parseVars>>

\* Something outside the program removes the socket path of a live primary.
ExternalUnlink(d) ==
    /\ path[d] # NoProc
    /\ Established(path[d])
    /\ path' = Unlinked(path, d)
    /\ UNCHANGED <<abstractOK, absBound, lockFile, lock, pc, cand, sock, peer,
                   result, errAt, single, atexit, relCalls, relRaised,
                   primAtStart, staleOf, reVars, parseVars>>

-----------------------------------------------------------------------------
(* The coordination specification                                          *)

NoParse == [kind |-> "none"]

Init ==
    /\ abstractOK \in BOOLEAN
    /\ absBound = NoProc
    /\ lockFile = [d \in Dirs |-> FALSE]
    /\ lock = [d \in Dirs |-> NoProc]
    /\ path = [d \in Dirs |-> NoProc]
    /\ pc = [p \in Procs |-> "start"]
    /\ cand = [p \in Procs |-> NoDir]
    /\ sock = [s \in Socks |-> "none"]
    /\ peer = [s \in Socks |-> NoProc]
    /\ result = [p \in Procs |-> "pending"]
    /\ errAt = [p \in Procs |-> ""]
    /\ single = [p \in Procs |-> FALSE]
    /\ atexit = [p \in Procs |-> <<>>]
    /\ relCalls = [p \in Procs |-> 0]
    /\ relRaised = [p \in Procs |-> FALSE]
    /\ primAtStart = [p \in Procs |-> {}]
    /\ staleOf = [p \in Procs |-> NoProc]
    /\ pc2 = [p \in Procs |-> "none"]
    /\ cand2 = [p \in Procs |-> NoDir]
    /\ result2 = [p \in Procs |-> "pending"]
    /\ single2 = [p \in Procs |-> FALSE]
    /\ spec = <<>>
    /\ fields = NoParse
    /\ parsed = NoParse

Next ==
    \/ \E p \in Procs : AbsBind(p)
    \/ \E p \in Procs : AbsConnect(p)
    \/ \E p \in Procs : AbsListen(p)
    \/ \E p \in Procs : Enumerate(p)
    \/ \E p \in Procs : OpenLock(p)
    \/ \E p \in Procs : Lockf(p)
    \/ \E p \in Procs : FsConnect(p)
    \/ \E p \in Procs : FsBind(p)
    \/ \E p \in Procs : FsUnlink(p)
    \/ \E p \in Procs : FsRebind(p)
    \/ \E p \in Procs : FsListen(p)
    \/ \E p \in Procs : Release(p)
    \/ \E p \in Procs : Exit(p)
    \/ \E p \in Procs : Kill(p)
    \/ \E d \in Dirs : ExternalUnlink(d)

Spec == Init /\ [][Next]_vars

-----------------------------------------------------------------------------
(* Claims about the coordination                                           *)

Alive(p) == pc[p] # "dead"
Listening(p) == Alive(p) /\ sock[p] = "listening"
\* p has returned or raised and nothing has been released since.
Settled(p) == pc[p] = "done" /\ relCalls[p] = 0

\* Every process coordinates on one address: the abstract address, or the
\* first candidate directory with its lock file opened.
SameAddress ==
    \/ abstractOK
    \/ \A p \in Procs : cand[p] = 1 /\ errAt[p] # "open"

\* C1: when all N processes have invoked the entry point for the same
\* identity and each has finished (none killed, exited or released), exactly
\* one returned True and holds the listening socket, every other process
\* returned False with a socket connected to that listening socket, and no
\* process ended with an error.  Stated for the runs most favourable to the
\* claim, those in which all processes coordinate on one address.
C1_ExactlyOnePrimary ==
    ((\A p \in Procs : Settled(p)) /\ SameAddress) =>
        \E q \in Procs :
            /\ result[q] = "True"
            /\ sock[q] = "listening"
            /\ \A p \in Procs \ {q} :
                 /\ result[p] = "False"
                 /\ sock[p] = "connected"
                 /\ peer[p] = q

\* C2: in every reachable state at most one live process holds a
\* bound-and-listening coordination socket for the identity.
C2_MutualExclusion ==
    Cardinality({p \in Procs : Listening(p)}) <= 1

\* C3: whenever the entry point has returned (not raised), the result is
\* True with this process's socket listening, or False with this process's
\* socket connected to a primary, and single_instance.socket holds that
\* socket in both cases.
C3_ResultMatchesState ==
    \A p \in Procs :
        (Settled(p) /\ result[p] # "OSError") =>
            \/ result[p] = "True" /\ sock[p] = "listening" /\ single[p]
            \/ result[p] = "False" /\ sock[p] = "connected"
                 /\ peer[p] # NoProc /\ single[p]

\* C4: an acquisition on the filesystem path whose enumeration of candidate
\* directories is exhausted ends with an error raised to the caller.
C4_ExhaustionIsFatal ==
    \A p \in Procs :
        (pc[p] = "done" /\ cand[p] > NumDirs) => result[p] = "OSError"

\* C5: an error caused by an unusable candidate directory (the lock file
\* cannot be opened, or the bind fails) reaches the caller only after the
\* last candidate directory has been tried.
C5_AdvancesToNextCandidate ==
    \A p \in Procs :
        (result[p] = "OSError" /\ errAt[p] \in {"open", "bind"}) =>
            cand[p] = NumDirs

\* C6: a process that obtains the lock of a directory whose socket path was
\* left behind by a killed primary finishes as Primary (it never raises),
\* and once it has bound, the socket path refers to its own new socket and
\* never again to the dead primary's socket.
C6_StaleSocketRecovery ==
    \A p \in Procs :
        staleOf[p] # NoProc =>
            /\ pc[p] = "done" => result[p] = "True"
            /\ pc[p] = "fs_listen" => path[cand[p]] = p
            /\ pc[p] \in {"fs_rebind", "fs_listen", "done"} =>
                 path[cand[p]] \in {p, NoProc}

\* C6 witness: a stale path of a dead primary was recovered and the new
\* primary's socket is the one the path refers to.
C6_Witness ==
    \E p \in Procs :
        /\ staleOf[p] # NoProc
        /\ pc[staleOf[p]] = "dead"
        /\ pc[p] = "done"
        /\ result[p] = "True"
        /\ sock[p] = "listening"
        /\ path[cand[p]] = p

\* C7: a process that starts acquisition while another process q is an
\* established primary, and finishes while q still is, returned False and
\* its socket is connected to q's socket.
C7_SequentialHandoff ==
    \A p \in Procs : \A q \in primAtStart[p] \ {p} :
        (pc[p] = "done" /\ Established(q)) =>
            /\ result[p] = "False"
            /\ peer[p] = q

\* C8: no invocation of remove_socket_file raises, whether the first, a
\* repeated one, one on a closed socket or one on a path that is already
\* gone; after an invocation the socket is closed and the path the handler
\* carries does not exist.
C8_ReleaseIdempotent ==
    \A p \in Procs :
        /\ ~relRaised[p]
        /\ (pc[p] = "done" /\ relCalls[p] >= 1) =>
              \A i \in DOMAIN atexit[p] :
                  /\ sock[atexit[p][i][1]] = "closed"
                  /\ atexit[p][i][2] # NoDir => path[atexit[p][i][2]] = NoProc

\* C8 witness: a filesystem-backed primary has invoked release twice.
C8_Witness ==
    \E p \in Procs :
        /\ pc[p] = "done"
        /\ relCalls[p] = 2
        /\ atexit[p] # <<>>
        /\ atexit[p][1][2] # NoDir
        /\ path[atexit[p][1][2]] = NoProc

-----------------------------------------------------------------------------
(* parse_address_spec                                                      *)
(* A Python str is a sequence of one-character strings; "NUL" stands for   *)
(* the zero byte '\0'.                                                     *)

\* Longest arbitrary text appended to a protocol word.
MaxTail == 4
\* Longest path, abstract name or host of an encoded spec.
MaxField == 2

Digits == {"0", "1", "2", "3", "4", "5", "6", "7", "8", "9"}
DigitVal(c) ==
    CASE c = "0" -> 0 [] c = "1" -> 1 [] c = "2" -> 2 [] c = "3" -> 3
      [] c = "4" -> 4 [] c = "5" -> 5 [] c = "6" -> 6 [] c = "7" -> 7
      [] c = "8" -> 8 [] c = "9" -> 9

\* The value Python uses for "no socket path"; no str equals it.
None == <<"None">>

\* All sequences over S of length at most n.
SeqsUpTo(S, n) == UNION {[1..k -> S] : k \in 0..n}

\* Position of the first / last c in s, 0 when s has none.
RECURSIVE FirstIndex(_, _, _)
FirstIndex(s, c, i) ==
    IF i > Len(s) THEN 0
    ELSE IF s[i] = c THEN i
    ELSE FirstIndex(s, c, i + 1)

RECURSIVE LastIndex(_, _, _)
LastIndex(s, c, i) ==
    IF i < 1 THEN 0
    ELSE IF s[i] = c THEN i
    ELSE LastIndex(s, c, i - 1)

\* str.split(':', 1): a list of one or two strings.
Split1(s) ==
    LET i == FirstIndex(s, ":", 1) IN
    IF i = 0 THEN <<s>>
    ELSE <<SubSeq(s, 1, i - 1), SubSeq(s, i + 1, Len(s))>>

\* rsplit mistaken for split: the separator is the first ':'.
RSplit1AtFirst(s) == Split1(s)

\* str.rsplit(':', 1): a list of one or two strings.
RSplit1(s) ==
    LET i == LastIndex(s, ":", Len(s)) IN
    IF i = 0 THEN <<s>>
    ELSE <<SubSeq(s, 1, i - 1), SubSeq(s, i + 1, Len(s))>>

\* str.strip() for the blank character.
RECURSIVE Strip(_)
Strip(s) ==
    IF s # <<>> /\ s[1] = " " THEN Strip(Tail(s))
    ELSE IF s # <<>> /\ s[Len(s)] = " " THEN Strip(SubSeq(s, 1, Len(s) - 1))
    ELSE s

\* The digits of an int() literal after its sign: decimal digits, single
\* underscores allowed between two digits.
DigitsOK(b) ==
    /\ b # <<>>
    /\ \A i \in 1..Len(b) :
         \/ b[i] \in Digits
         \/ b[i] = "_" /\ 1 < i /\ i < Len(b)
              /\ b[i - 1] \in Digits /\ b[i + 1] \in Digits

RECURSIVE DigitsValue(_, _)
DigitsValue(b, acc) ==
    IF b = <<>> THEN acc
    ELSE IF b[1] = "_" THEN DigitsValue(Tail(b), acc)
    ELSE DigitsValue(Tail(b), 10 * acc + DigitVal(b[1]))

\* int(port): blanks stripped, an optional sign, then the digits;
\* ok is FALSE where int() raises ValueError.
PyInt(s) ==
    LET t == Strip(s)
        signed == t # <<>> /\ t[1] \in {"+", "-"}
        b == IF signed THEN Tail(t) ELSE t
    IN  IF DigitsOK(b)
        THEN [ok |-> TRUE,
              val |-> IF signed /\ t[1] = "-" THEN 0 - DigitsValue(b, 0)
                      ELSE DigitsValue(b, 0)]
        ELSE [ok |-> FALSE, val |-> 0]

ValueError == [kind |-> "ValueError"]

\* ParseTcp without the int() conversion: the port is kept as text.
ParseTcpNoInt(protocol, rest) ==
    LET hp == RSplit1(rest) IN
    IF Len(hp) # 2 THEN ValueError
    ELSE [kind |-> "ok",
          family |-> IF protocol = <<"t", "c", "p">> THEN "AF_INET" ELSE "AF_INET6",
          address |-> [host |-> hp[1], port |-> hp[2]],
          socket_path |-> None]

\* The elif branch: host, port = rest.rsplit(':', 1); address = host, int(port)
ParseTcp(protocol, rest) ==
    LET hp == RSplit1(rest) IN
    IF Len(hp) # 2 THEN ValueError        \* not enough values to unpack
    ELSE IF ~PyInt(hp[2]).ok THEN ValueError  \* invalid literal for int()
    ELSE [kind |-> "ok",
          family |-> IF protocol = <<"t", "c", "p">> THEN "AF_INET" ELSE "AF_INET6",
          address |-> [host |-> hp[1], port |-> PyInt(hp[2]).val],
          socket_path |-> None]

\* ParseUnix without the len(address) > 1 test: a lone '@' is abstract too.
ParseUnixAnyAt(rest) ==
    IF rest # <<>> /\ rest[1] = "@"
    THEN [kind |-> "ok", family |-> "AF_UNIX",
          address |-> <<"NUL">> \o Tail(rest), socket_path |-> None]
    ELSE [kind |-> "ok", family |-> "AF_UNIX",
          address |-> rest, socket_path |-> rest]

\* The if branch: an '@' followed by at least one character is abstract.
ParseUnix(rest) ==
    IF rest # <<>> /\ rest[1] = "@" /\ Len(rest) > 1
    THEN [kind |-> "ok", family |-> "AF_UNIX",
          address |-> <<"NUL">> \o Tail(rest), socket_path |-> None]
    ELSE [kind |-> "ok", family |-> "AF_UNIX",
          address |-> rest, socket_path |-> rest]

\* def parse_address_spec(spec): returns (family, address, socket_path) or
\* raises ValueError.
ParseAddressSpec(s) ==
    LET pr == Split1(s) IN
    IF Len(pr) # 2 THEN ValueError        \* not enough values to unpack
    ELSE IF pr[1] = <<"u", "n", "i", "x">> THEN ParseUnix(pr[2])
    ELSE IF pr[1] \in {<<"t", "c", "p">>, <<"t", "c", "p", "6">>}
         THEN ParseTcp(pr[1], pr[2])
    ELSE ValueError                       \* Unknown protocol

\* str(port) for an integer.
RECURSIVE NatToStr(_)
NatToStr(n) ==
    LET d == CHOOSE c \in Digits : DigitVal(c) = n % 10 IN
    IF n < 10 THEN <<d>> ELSE NatToStr(n \div 10) \o <<d>>

IntToStr(n) == IF n < 0 THEN <<"-">> \o NatToStr(0 - n) ELSE NatToStr(n)

\* The texts parse_address_spec is called with.
ProtocolWords ==
    {<<"u", "n", "i", "x">>, <<"t", "c", "p">>, <<"t", "c", "p", "6">>,
     <<"f", "o", "o">>, <<>>}
TailChars == {":", "@", "h", "1", "-"}
PathChars == {"/", "a", "@", ":"}
NameChars == {"a", "@", ":"}
HostChars == {"h", ":", "1"}
Ports == {0 - 1, 0, 7, 80, 65535}

\* The grammar of section 6: the spec a set of structured fields encodes.
Encode(f) ==
    CASE f.form = "unix_path" -> <<"u", "n", "i", "x", ":">> \o f.path
      [] f.form = "unix_abstract" -> <<"u", "n", "i", "x", ":", "@">> \o f.name
      [] f.form = "tcp" ->
           <<"t", "c", "p", ":">> \o f.host \o <<":">> \o IntToStr(f.port)
      [] f.form = "tcp6" ->
           <<"t", "c", "p", "6", ":">> \o f.host \o <<":">> \o IntToStr(f.port)

WellFormedFields ==
    [form : {"unix_path"}, path : SeqsUpTo(PathChars, MaxField)]
    \cup [form : {"unix_abstract"}, name : SeqsUpTo(NameChars, MaxField)]
    \cup [form : {"tcp", "tcp6"}, host : SeqsUpTo(HostChars, MaxField), port : Ports]

RawFields == [form |-> "raw"]

\* The caller passes a spec: arbitrary text, or the encoding of fields.
InitParse ==
    /\ abstractOK = TRUE
    /\ absBound = NoProc
    /\ lockFile = [d \in Dirs |-> FALSE]
    /\ lock = [d \in Dirs |-> NoProc]
    /\ path = [d \in Dirs |-> NoProc]
    /\ pc = [p \in Procs |-> "start"]
    /\ cand = [p \in Procs |-> NoDir]
    /\ sock = [s \in Socks |-> "none"]
    /\ peer = [s \in Socks |-> NoProc]
    /\ result = [p \in Procs |-> "pending"]
    /\ errAt = [p \in Procs |-> ""]
    /\ single = [p \in Procs |-> FALSE]
    /\ atexit = [p \in Procs |-> <<>>]
    /\ relCalls = [p \in Procs |-> 0]
    /\ relRaised = [p \in Procs |-> FALSE]
    /\ primAtStart = [p \in Procs |-> {}]
    /\ staleOf = [p \in Procs |-> NoProc]
    /\ pc2 = [p \in Procs |-> "none"]
    /\ cand2 = [p \in Procs |-> NoDir]
    /\ result2 = [p \in Procs |-> "pending"]
    /\ single2 = [p \in Procs |-> FALSE]
    /\ parsed = NoParse
    /\ \/ /\ fields = RawFields
          /\ \E w \in ProtocolWords : \E tl \in SeqsUpTo(TailChars, MaxTail) :
               spec = w \o tl
       \/ /\ fields \in WellFormedFields
          /\ spec = Encode(fields)

\* The call parse_address_spec(spec).
Parse ==
    /\ parsed = NoParse
    /\ parsed' = ParseAddressSpec(spec)
    /\ UNCHANGED <<procVars, spec, fields>>

NextParse == Parse

SpecParse == InitParse /\ [][NextParse]_vars

-----------------------------------------------------------------------------
(* Claims about parse_address_spec                                         *)

HasColon(s) == \E i \in 1..Len(s) : s[i] = ":"
\* The text before the first ':' and the text after it.
ProtocolOf(s) ==
    LET k == CHOOSE i \in 1..Len(s) : s[i] = ":" /\ \A j \in 1..(i - 1) : s[j] # ":"
    IN  SubSeq(s, 1, k - 1)
RestOf(s) ==
    LET k == CHOOSE i \in 1..Len(s) : s[i] = ":" /\ \A j \in 1..(i - 1) : s[j] # ":"
    IN  SubSeq(s, k + 1, Len(s))
\* The text after the last ':' of a text that has one.
PortText(r) ==
    LET k == CHOOSE i \in 1..Len(r) : r[i] = ":" /\ \A j \in (i + 1)..Len(r) : r[j] # ":"
    IN  SubSeq(r, k + 1, Len(r))
\* A text that denotes an integer: an optional sign and digits.
IntegerText(x) ==
    \E sign \in {<<>>, <<"+">>, <<"-">>} :
        /\ Len(Strip(x)) > Len(sign)
        /\ SubSeq(Strip(x), 1, Len(sign)) = sign
        /\ DigitsOK(SubSeq(Strip(x), Len(sign) + 1, Len(Strip(x))))
IsTcp(w) == w \in {<<"t", "c", "p">>, <<"t", "c", "p", "6">>}
\* Outside the grammar: no ':' at all, an unknown protocol, a tcp/tcp6 rest
\* with no ':' or with a port that is not an integer.
Malformed(s) ==
    \/ ~HasColon(s)
    \/ /\ HasColon(s)
       /\ ProtocolOf(s) # <<"u", "n", "i", "x">>
       /\ ~IsTcp(ProtocolOf(s))
    \/ /\ HasColon(s)
       /\ IsTcp(ProtocolOf(s))
       /\ \/ ~HasColon(RestOf(s))
          \/ HasColon(RestOf(s)) /\ ~IntegerText(PortText(RestOf(s)))

\* C9: for every spec outside the grammar the call raises ValueError, the
\* one invalid-address-spec error kind, and returns no part of a result.
C9_MalformedSpecsFail ==
    (parsed # NoParse /\ Malformed(spec)) => parsed = ValueError

\* C9 witness: a tcp spec whose port is not an integer was rejected.
C9_Witness ==
    /\ parsed = ValueError
    /\ HasColon(spec)
    /\ ProtocolOf(spec) = <<"t", "c", "p">>
    /\ HasColon(RestOf(spec))
    /\ ~IntegerText(PortText(RestOf(spec)))

\* The parse result holds exactly the family and the fields f encodes.
Recovers(f, r) ==
    /\ r.kind = "ok"
    /\ CASE f.form = "unix_path" ->
              /\ r.family = "AF_UNIX"
              /\ r.address = f.path
              /\ r.socket_path = f.path
         [] f.form = "unix_abstract" ->
              /\ r.family = "AF_UNIX"
              /\ r.address = <<"NUL">> \o f.name
              /\ r.socket_path = None
         [] f.form = "tcp" ->
              /\ r.family = "AF_INET"
              /\ r.address = [host |-> f.host, port |-> f.port]
         [] f.form = "tcp6" ->
              /\ r.family = "AF_INET6"
              /\ r.address = [host |-> f.host, port |-> f.port]

\* C10 as stated: the parse of every spec the grammar builds from
\* structured fields recovers exactly those fields.
C10_RoundTripAll ==
    (parsed # NoParse /\ fields.form # "raw") => Recovers(fields, parsed)

\* A path that reads as an abstract address, or an abstract name that is
\* empty, is encoded as a text the parser assigns to the other form.
Ambiguous(f) ==
    \/ f.form = "unix_path" /\ Len(f.path) > 1 /\ f.path[1] = "@"
    \/ f.form = "unix_abstract" /\ f.name = <<>>

\* C10 amended: the parse recovers exactly the encoded fields for every
\* tcp and tcp6 spec (the host split from the port at the last ':'), for
\* every non-empty abstract name, and for every filesystem path that is not
\* an '@' followed by further characters.
C10_RoundTrip ==
    (parsed # NoParse /\ fields.form # "raw" /\ ~Ambiguous(fields)) =>
        Recovers(fields, parsed)

\* C10 witness: a tcp6 spec whose host contains ':' was parsed back.
C10_Witness ==
    /\ fields.form = "tcp6"
    /\ HasColon(fields.host)
    /\ parsed # NoParse
    /\ Recovers(fields, parsed)

-----------------------------------------------------------------------------
(* System-call failures the kernel state does not determine                *)

\* s.bind(addr) raising an OSError whose errno is neither ENOENT nor
\* EADDRINUSE (EACCES, ENOMEM, ...): the bare `raise` of __call__.
AbsBindFails(p) ==
    /\ pc[p] = "start"
    /\ primAtStart' = [primAtStart EXCEPT ![p] = {q \in Procs : Established(q)}]
    /\ Raise(p, "abs_bind")
    /\ sock' = [sock EXCEPT ![p] = "closed"]
    /\ UNCHANGED <<abstractOK, absBound, lockFile, lock, path, cand, peer,
                   single, atexit, relCalls, relRaised, staleOf, reVars, parseVars>>

\* s.bind(socket_path) in the except branch raising (the path was created
\* again, or EACCES, ...): no handler is around it, the OSError propagates.
FsRebindFails(p) ==
    /\ pc[p] = "fs_rebind"
    /\ Raise(p, "bind")
    /\ sock' = [sock EXCEPT ![p] = "closed"]
    /\ UNCHANGED <<abstractOK, absBound, lockFile, lock, path, cand, peer,
                   single, atexit, relCalls, relRaised, primAtStart, staleOf,
                   reVars, parseVars>>

NextFault ==
    \/ Next
    \/ \E p \in Procs : AbsBindFails(p)
    \/ \E p \in Procs : FsRebindFails(p)

\* The coordination with the injected system-call failures.
SpecFault == Init /\ [][NextFault]_vars

\* single_instance_unix(name) has been called by p.
FsInvoked(p) == pc[p] = "enum" \/ cand[p] # NoDir

\* C11: the filesystem coordinator is invoked exactly when the abstract bind
\* failed with ENOENT (the platform has no abstract namespace); a bind that
\* failed with another errno than ENOENT and EADDRINUSE raises to the caller
\* with no fallback, and the process is neither primary nor secondary: it
\* holds no socket, address, lock, path, handler or single_instance.socket.
C11_FallbackOnlyOnENOENT ==
    \A p \in Procs :
        (Alive(p) /\ pc[p] # "start") =>
            /\ FsInvoked(p) <=> (~abstractOK /\ errAt[p] # "abs_bind")
            /\ errAt[p] = "abs_bind" =>
                 /\ pc[p] = "done"
                 /\ result[p] = "OSError"
                 /\ sock[p] = "closed"
                 /\ ~single[p]
                 /\ atexit[p] = <<>>
                 /\ absBound # p
                 /\ \A d \in Dirs : lock[d] # p /\ path[d] # p

\* C11 witness: one process's abstract bind failed with another errno and it
\* raised, while a second process got ENOENT and finished in the filesystem
\* coordinator as primary.
C11_Witness ==
    \E p, q \in Procs :
        /\ errAt[p] = "abs_bind"
        /\ result[p] = "OSError"
        /\ cand[q] \in Dirs
        /\ result[q] = "True"
        /\ Listening(q)

-----------------------------------------------------------------------------
(* Claims about candidate directories, release and registration            *)

\* p returned True from single_instance_unix and lives: a filesystem primary.
FsPrimary(p) == Alive(p) /\ result[p] = "True" /\ cand[p] \in Dirs

\* C12: while a primary that acquired its lock in candidate directory D is
\* alive, no other process of the identity is Primary in a different
\* candidate directory, whatever directories each process found accessible
\* when it enumerated them.  (That a process whose lock attempt is denied
\* never examines a later candidate holds by construction: Lockf's denied
\* branch leads to FsConnect, which returns or raises.)
C12_FirstLockedDirectoryDecides ==
    \A p, q \in Procs :
        (FsPrimary(q) /\ lock[cand[q]] = q /\ FsPrimary(p)) =>
            cand[p] = cand[q]

\* The step runs remove_socket_file in process p: an explicit release, or
\* the handlers at exit.
ReleasedBy(p) ==
    \/ relCalls'[p] # relCalls[p]
    \/ pc[p] = "done" /\ pc'[p] = "dead"

\* C13: whenever a release run by process p (explicit, repeated or at exit)
\* removes a socket path, that path referred to the socket p itself bound
\* as primary and registered, so no other live process is listening on it.
C13_ReleaseUnlinksOwnPath ==
    [][\A p \in Procs : \A d \in Dirs :
         (ReleasedBy(p) /\ path[d] # NoProc /\ path'[d] = NoProc) =>
             /\ path[d] = p
             /\ result[p] = "True"
             /\ \E i \in DOMAIN atexit[p] : atexit[p][i] = <<p, d>>
             /\ \A q \in Procs \ {p} : ~(Listening(q) /\ path[d] = q)]_vars

\* C13 witness: a filesystem primary has released once, its path is gone,
\* and a live secondary is still connected to its socket.
C13_Witness ==
    \E p, q \in Procs :
        /\ FsPrimary(p)
        /\ relCalls[p] = 1
        /\ path[cand[p]] = NoProc
        /\ Alive(q)
        /\ result[q] = "False"
        /\ peer[q] = p

\* C14: a filesystem primary has its release registered, and once that
\* release has run while the process lives the primary has given up all it
\* owned: its socket is closed, the socket path no longer refers to it, and
\* the lock of its directory is no longer held by it.
C14_ReleaseGivesUpEverything ==
    \A p \in Procs :
        FsPrimary(p) =>
            /\ \E i \in DOMAIN atexit[p] : atexit[p][i] = <<p, cand[p]>>
            /\ relCalls[p] >= 1 =>
                 /\ sock[p] = "closed"
                 /\ path[cand[p]] # p
                 /\ lock[cand[p]] # p

\* The position of a program point on the longest path through __call__ and
\* single_instance_unix; every step of an attempt moves to a larger one.
Rank(s) ==
    CASE s = "start" -> 0
      [] s \in {"enum", "abs_listen", "abs_connect"} -> 1
      [] s = "open" -> 2
      [] s = "lockf" -> 3
      [] s \in {"fs_connect", "fs_bind"} -> 4
      [] s = "fs_unlink" -> 5
      [] s = "fs_rebind" -> 6
      [] s = "fs_listen" -> 7
      [] s = "done" -> 8
      [] OTHER -> 9

\* One step of the acquisition attempt of process p.
AcqStep(p) ==
    \/ AbsBind(p) \/ AbsBindFails(p) \/ AbsConnect(p) \/ AbsListen(p)
    \/ Enumerate(p) \/ OpenLock(p) \/ Lockf(p) \/ FsConnect(p)
    \/ FsBind(p) \/ FsUnlink(p) \/ FsRebind(p) \/ FsRebindFails(p)
    \/ FsListen(p)

\* An attempt never waits: while it has not returned or raised, its next
\* step can be taken whatever the other processes do.
C15_NeverBlocks ==
    \A p \in Procs : pc[p] \notin {"done", "dead"} => ENABLED AcqStep(p)

\* Every step of an attempt advances along the program (so an attempt has
\* at most Rank("done") steps and no statement runs twice), the candidate
\* directory once chosen is never replaced, and the step after the unlink
\* of a stale path is the one re-bind, which ends in listening or in the
\* OSError being raised.
C15_Progress ==
    [][\A p \in Procs :
         (pc'[p] # pc[p] /\ pc'[p] # "dead") =>
             /\ Rank(pc'[p]) > Rank(pc[p])
             /\ cand[p] # NoDir => cand'[p] = cand[p]
             /\ pc[p] = "fs_unlink" => pc'[p] \in {"fs_rebind", "done"}
             /\ pc[p] = "fs_rebind" =>
                  \/ pc'[p] = "fs_listen"
                  \/ pc'[p] = "done" /\ result'[p] = "OSError"]_vars

\* An attempt that has ended returned True, returned False or raised.
C15_Outcome ==
    \A p \in Procs :
        pc[p] = "done" => result[p] \in {"True", "False", "OSError"}

\* C15: every acquisition attempt ends after a bounded number of steps as
\* Primary, as Secondary or with an error: it never waits or retries, it
\* visits a candidate directory at most once, and stale-socket recovery
\* unlinks and re-binds once, a failure of the second bind being raised.
C15_BoundedAcquisition ==
    /\ []C15_NeverBlocks
    /\ []C15_Outcome
    /\ C15_Progress

-----------------------------------------------------------------------------
(* Claims about the unix branch of parse_address_spec                      *)

\* C17: for a spec whose protocol is "unix" the call returns family AF_UNIX;
\* when the rest starts with '@' and is longer than one character, the
\* address is a zero byte followed by the rest without its '@' and there is
\* no cleanup path; in every other case, a rest that is exactly "@" or is
\* empty included, the rest is both the bind address and the cleanup path.
C17_UnixAbstractOrPath ==
    (parsed # NoParse /\ HasColon(spec) /\ ProtocolOf(spec) = <<"u", "n", "i", "x">>) =>
        LET rest == RestOf(spec) IN
        /\ parsed.kind = "ok"
        /\ parsed.family = "AF_UNIX"
        /\ IF Len(rest) > 1 /\ rest[1] = "@"
           THEN /\ parsed.address = <<"NUL">> \o SubSeq(rest, 2, Len(rest))
                /\ parsed.socket_path = None
           ELSE /\ parsed.address = rest
                /\ parsed.socket_path = rest

\* C17 witness: "unix:@" was parsed, and the lone '@' came back as a
\* filesystem path.
C17_Witness ==
    /\ spec = <<"u", "n", "i", "x", ":", "@">>
    /\ parsed # NoParse
    /\ parsed.kind = "ok"
    /\ parsed.address = <<"@">>
    /\ parsed.socket_path = <<"@">>

-----------------------------------------------------------------------------
(* Claims about the stale-socket unlink                                    *)

\* C18: a process that is about to run the os.unlink of the stale-socket
\* branch holds the exclusive lock of that directory, and the path it is
\* about to remove does not refer to the socket of another live process
\* that is bound or listening there.
C18_UnlinkOnlyUnderLock ==
    \A p \in Procs :
        pc[p] = "fs_unlink" =>
            /\ lock[cand[p]] = p
            /\ \A q \in Procs \ {p} :
                 path[cand[p]] = q =>
                     ~(Alive(q) /\ sock[q] \in {"bound", "listening"})

\* C18 witness: the lock holder has just unlinked the path a dead primary
\* left behind and is about to bind again.
C18_Witness ==
    \E p \in Procs :
        /\ pc[p] = "fs_rebind"
        /\ lock[cand[p]] = p
        /\ staleOf[p] # NoProc
        /\ pc[staleOf[p]] = "dead"
        /\ path[cand[p]] = NoProc

-----------------------------------------------------------------------------
(* A second call of the entry point in a process that is already primary   *)

\* An OSError leaves the second call.
Raise2(p) ==
    /\ pc2' = [pc2 EXCEPT ![p] = "done"]
    /\ result2' = [result2 EXCEPT ![p] = "OSError"]
    /\ sock' = [sock EXCEPT ![Second(p)] = "closed"]

\* single_instance() again: s = socket.socket(AF_UNIX); s.bind('\0' + name).
\* The caller returned True before, so where the platform has the abstract
\* namespace the address is taken by its own first socket: EADDRINUSE.
ReAbsBind(p) ==
    /\ pc[p] = "done"
    /\ result[p] = "True"
    /\ pc2[p] = "none"
    /\ sock' = [sock EXCEPT ![Second(p)] = "created"]
    /\ IF ~abstractOK
       THEN pc2' = [pc2 EXCEPT ![p] = "enum"]
       ELSE /\ absBound # NoProc
            /\ pc2' = [pc2 EXCEPT ![p] = "abs_connect"]
    /\ UNCHANGED <<abstractOK, absBound, lockFile, lock, path, pc, cand, peer,
                   result, errAt, single, atexit, relCalls, relRaised,
                   primAtStart, staleOf, cand2, result2, single2, parseVars>>

\* s.connect(addr); single_instance.socket = s; return False
ReAbsConnect(p) ==
    /\ pc2[p] = "abs_connect"
    /\ IF Connectable(absBound)
       THEN /\ peer' = [peer EXCEPT ![Second(p)] = absBound]
            /\ sock' = [sock EXCEPT ![Second(p)] = "connected"]
            /\ single2' = [single2 EXCEPT ![p] = TRUE]
            /\ result2' = [result2 EXCEPT ![p] = "False"]
            /\ pc2' = [pc2 EXCEPT ![p] = "done"]
       ELSE /\ Raise2(p)
            /\ UNCHANGED <<peer, single2>>
    /\ UNCHANGED <<abstractOK, absBound, lockFile, lock, path, pc, cand,
                   result, errAt, single, atexit, relCalls, relRaised,
                   primAtStart, staleOf, cand2, parseVars>>

\* for path in unix_socket_paths(name), with the os.access answers of now.
ReEnumerate(p) ==
    /\ pc2[p] = "enum"
    /\ \E acc \in [Dirs -> BOOLEAN] :
         LET d == FirstAccessible(acc, 1) IN
         /\ cand2' = [cand2 EXCEPT ![p] = d]
         /\ IF d <= NumDirs
            THEN /\ pc2' = [pc2 EXCEPT ![p] = "open"]
                 /\ UNCHANGED result2
            ELSE /\ pc2' = [pc2 EXCEPT ![p] = "done"]
                 /\ result2' = [result2 EXCEPT ![p] = "None"]
    /\ UNCHANGED <<abstractOK, absBound, lockFile, lock, path, pc, cand, sock,
                   peer, result, errAt, single, atexit, relCalls, relRaised,
                   primAtStart, staleOf, single2, parseVars>>

\* fd = os.open(path, O_CREAT | O_WRONLY | O_TRUNC | O_CLOEXEC)
ReOpenLock(p) ==
    /\ pc2[p] = "open"
    /\ \E ok \in BOOLEAN :
         IF ok
         THEN /\ lockFile' = [lockFile EXCEPT ![cand2[p]] = TRUE]
              /\ pc2' = [pc2 EXCEPT ![p] = "lockf"]
              /\ UNCHANGED <<result2, sock>>
         ELSE /\ Raise2(p)
              /\ UNCHANGED lockFile
    /\ UNCHANGED <<abstractOK, absBound, lock, path, pc, cand, peer, result,
                   errAt, single, atexit, relCalls, relRaised, primAtStart,
                   staleOf, cand2, single2, parseVars>>

\* fcntl.lockf(fd, LOCK_EX | LOCK_NB) on the new descriptor: lockf locks
\* belong to the process, so the holder itself is granted the lock again.
ReLockf(p) ==
    /\ pc2[p] = "lockf"
    /\ IF lock[cand2[p]] \in {NoProc, p}
       THEN /\ lock' = [lock EXCEPT ![cand2[p]] = p]
            /\ pc2' = [pc2 EXCEPT ![p] = "fs_bind"]
       ELSE /\ pc2' = [pc2 EXCEPT ![p] = "fs_connect"]
            /\ UNCHANGED lock
    /\ UNCHANGED <<abstractOK, absBound, lockFile, path, pc, cand, sock, peer,
                   result, errAt, single, atexit, relCalls, relRaised,
                   primAtStart, staleOf, cand2, result2, single2, parseVars>>

\* s.connect(socket_path); single_instance.socket = s; return False
ReFsConnect(p) ==
    /\ pc2[p] = "fs_connect"
    /\ IF Connectable(path[cand2[p]])
       THEN /\ peer' = [peer EXCEPT ![Second(p)] = path[cand2[p]]]
            /\ sock' = [sock EXCEPT ![Second(p)] = "connected"]
            /\ single2' = [single2 EXCEPT ![p] = TRUE]
            /\ result2' = [result2 EXCEPT ![p] = "False"]
            /\ pc2' = [pc2 EXCEPT ![p] = "done"]
       ELSE /\ Raise2(p)
            /\ UNCHANGED <<peer, single2>>
    /\ UNCHANGED <<abstractOK, absBound, lockFile, lock, path, pc, cand,
                   result, errAt, single, atexit, relCalls, relRaised,
                   primAtStart, staleOf, cand2, parseVars>>

\* s.bind(socket_path)
ReFsBind(p) ==
    /\ pc2[p] = "fs_bind"
    /\ IF path[cand2[p]] = NoProc
       THEN /\ path' = BoundAt(path, cand2[p], Second(p))
            /\ sock' = [sock EXCEPT ![Second(p)] = "bound"]
            /\ pc2' = [pc2 EXCEPT ![p] = "fs_listen"]
       ELSE \* EADDRINUSE / EEXIST
            /\ pc2' = [pc2 EXCEPT ![p] = "fs_unlink"]
            /\ UNCHANGED <<path, sock>>
    /\ UNCHANGED <<abstractOK, absBound, lockFile, lock, pc, cand, peer,
                   result, errAt, single, atexit, relCalls, relRaised,
                   primAtStart, staleOf, cand2, result2, single2, parseVars>>

\* os.unlink(socket_path) in the except branch
ReFsUnlink(p) ==
    /\ pc2[p] = "fs_unlink"
    /\ IF path[cand2[p]] # NoProc
       THEN /\ path' = Unlinked(path, cand2[p])
            /\ pc2' = [pc2 EXCEPT ![p] = "fs_rebind"]
            /\ UNCHANGED <<result2, sock>>
       ELSE /\ Raise2(p)
            /\ UNCHANGED path
    /\ UNCHANGED <<abstractOK, absBound, lockFile, lock, pc, cand, peer,
                   result, errAt, single, atexit, relCalls, relRaised,
                   primAtStart, staleOf, cand2, single2, parseVars>>

\* s.bind(socket_path) again, inside the except branch
ReFsRebind(p) ==
    /\ pc2[p] = "fs_rebind"
    /\ IF path[cand2[p]] = NoProc
       THEN /\ path' = BoundAt(path, cand2[p], Second(p))
            /\ sock' = [sock EXCEPT ![Second(p)] = "bound"]
            /\ pc2' = [pc2 EXCEPT ![p] = "fs_listen"]
            /\ UNCHANGED result2
       ELSE /\ Raise2(p)
            /\ UNCHANGED path
    /\ UNCHANGED <<abstractOK, absBound, lockFile, lock, pc, cand, peer,
                   result, errAt, single, atexit, relCalls, relRaised,
                   primAtStart, staleOf, cand2, single2, parseVars>>

\* single_instance.socket = s; atexit.register(remove_socket_file, s,
\* socket_path) next to the handler of the first call; s.listen(); return True
ReFsListen(p) ==
    /\ pc2[p] = "fs_listen"
    /\ single2' = [single2 EXCEPT ![p] = TRUE]
    /\ atexit' = [atexit EXCEPT ![p] = Append(@, <<Second(p), cand2[p]>>)]
    /\ sock' = [sock EXCEPT ![Second(p)] = "listening"]
    /\ result2' = [result2 EXCEPT ![p] = "True"]
    /\ pc2' = [pc2 EXCEPT ![p] = "done"]
    /\ UNCHANGED <<abstractOK, absBound, lockFile, lock, path, pc, cand, peer,
                   result, errAt, single, relCalls, relRaised, primAtStart,
                   staleOf, cand2, parseVars>>

\* The first calls of all processes and the second calls of the primaries.
NextReentry ==
    \/ \E p \in Procs : AbsBind(p)
    \/ \E p \in Procs : AbsConnect(p)
    \/ \E p \in Procs : AbsListen(p)
    \/ \E p \in Procs : Enumerate(p)
    \/ \E p \in Procs : OpenLock(p)
    \/ \E p \in Procs : Lockf(p)
    \/ \E p \in Procs : FsConnect(p)
    \/ \E p \in Procs : FsBind(p)
    \/ \E p \in Procs : FsUnlink(p)
    \/ \E p \in Procs : FsRebind(p)
    \/ \E p \in Procs : FsListen(p)
    \/ \E p \in Procs : Kill(p)
    \/ \E p \in Procs : ReAbsBind(p)
    \/ \E p \in Procs : ReAbsConnect(p)
    \/ \E p \in Procs : ReEnumerate(p)
    \/ \E p \in Procs : ReOpenLock(p)
    \/ \E p \in Procs : ReLockf(p)
    \/ \E p \in Procs : ReFsConnect(p)
    \/ \E p \in Procs : ReFsBind(p)
    \/ \E p \in Procs : ReFsUnlink(p)
    \/ \E p \in Procs : ReFsRebind(p)
    \/ \E p \in Procs : ReFsListen(p)

SpecReentry == Init /\ [][NextReentry]_vars

-----------------------------------------------------------------------------
(* Claims about the second call                                            *)

\* p returned True from its first call, lives, and has called again.
CalledAgain(p) == Alive(p) /\ result[p] = "True" /\ pc2[p] # "none"

\* The socket the first call left listening is still listening and still
\* bound where the first call bound it.
OriginalStaysBound(p) ==
    /\ sock[p] = "listening"
    /\ IF cand[p] = NoDir THEN absBound = p ELSE path[cand[p]] = p

\* C19 on the abstract address: during and after the second call of an
\* abstract primary its first socket stays bound and listening, no second
\* listening socket exists, and once the call has ended
\* single_instance.socket is still the listening socket.
C19_AbstractReentry ==
    \A p \in Procs :
        (CalledAgain(p) /\ cand[p] = NoDir) =>
            /\ OriginalStaysBound(p)
            /\ sock[Second(p)] # "listening"
            /\ pc2[p] = "done" => single[p] /\ ~single2[p]

\* C19 on the filesystem path: the same for a filesystem primary; the
\* second call neither unlinks nor replaces the socket path.
C19_FilesystemReentry ==
    \A p \in Procs :
        (CalledAgain(p) /\ cand[p] \in Dirs) =>
            /\ OriginalStaysBound(p)
            /\ sock[Second(p)] # "listening"
            /\ pc2[p] = "done" => single[p] /\ ~single2[p]

\* C19: acquisition is idempotent within one process: when the process
\* that is already Primary invokes the entry point again, it remains the
\* sole primary, its original listening socket stays bound at its address
\* or socket path, no second listening socket is created, and
\* single_instance.socket still refers to the listening socket; on the
\* abstract address and on the filesystem path alike.
C19_ReentryIdempotent ==
    /\ C19_AbstractReentry
    /\ C19_FilesystemReentry

=============================================================================
